---- MODULE Spec2Model ----
(***************************************************************************)
(* Model of the recipe text pipeline: timer_detector.py,                   *)
(* ingredient_matcher.py, recipe_parser.py and the step post-processing of *)
(* app.py.                                                                 *)
(*                                                                         *)
(* A Python str is modelled as a sequence of one-character strings, so     *)
(* that the regular expressions of the source are modelled character by    *)
(* character.  The strings built by format_duration are TLA+ strings.      *)
(***************************************************************************)
EXTENDS Integers, Sequences, FiniteSets, TLC

VARIABLES
    pc,            \* position of the call under study: "start" or "done"
    step_text,     \* detect_timers / match_ingredients_to_step: step_text
    timers,        \* detect_timers: the list it returns
    seconds,       \* format_duration: its argument
    display,       \* format_duration: the string it returns
    ingredients,   \* match_ingredients_to_step: ingredients
    matched,       \* match_ingredients_to_step: the list it returns
    content,       \* parse_recipe_text: content
    parsed,        \* parse_recipe_text: the dictionary it returns
    steps,         \* break_into_sentences: steps
    sentence_steps,\* break_into_sentences: the list it returns
    recipe_data,   \* process_recipe_steps: the dictionary recipe_data
    step_heap,     \* the step dictionaries, by reference
    calls,         \* the number of calls of process_recipe_steps so far
    preheat_instructions, \* detect_preheat_oven: the list it returns
    saved_recipes_file,   \* the list of recipes in SAVED_RECIPES_FILE
    file_truncated,       \* the file is open for writing and not yet written
    now,                  \* datetime.now(), in milliseconds
    handler               \* the request handlers: request, local recipes, response

vars == <<pc, step_text, timers, seconds, display, ingredients, matched,
          content, parsed, steps, sentence_steps, recipe_data, step_heap, calls,
          preheat_instructions, saved_recipes_file, file_truncated, now, handler>>

----------------------------------------------------------------------------
(* Characters *)

DigitChars == <<"0","1","2","3","4","5","6","7","8","9">>
UpperChars == <<"A","B","C","D","E","F","G","H","I","J","K","L","M","N","O","P","Q","R","S","T","U","V","W","X","Y","Z">>
LowerChars == <<"a","b","c","d","e","f","g","h","i","j","k","l","m","n","o","p","q","r","s","t","u","v","w","x","y","z">>

Range(s) == {s[i] : i \in DOMAIN s}

IsDigit(c) == c \in Range(DigitChars)

\* \s of the re module (the ASCII part)
IsSpace(c) == c \in {" ", "\t", "\n", "\r", "\f"}

\* \w of the re module (the ASCII part)
IsWordChar(c) == c \in Range(DigitChars) \cup Range(UpperChars) \cup Range(LowerChars) \cup {"_"}

\* str.lower() on one character
LowerChar(c) ==
    IF c \in Range(UpperChars)
    THEN LowerChars[CHOOSE i \in DOMAIN UpperChars : UpperChars[i] = c]
    ELSE c

\* str.lower()
Lower(s) == [i \in DOMAIN s |-> LowerChar(s[i])]

DigitValue(c) == (CHOOSE i \in DOMAIN DigitChars : DigitChars[i] = c) - 1

\* the first position >= i of s whose character does not satisfy the class
\* (Len(s) + 1 when there is none): the end of a greedy run \d* or \s*
RECURSIVE DigitsEnd(_, _)
DigitsEnd(s, i) == IF i <= Len(s) /\ IsDigit(s[i]) THEN DigitsEnd(s, i + 1) ELSE i

RECURSIVE SpacesEnd(_, _)
SpacesEnd(s, i) == IF i <= Len(s) /\ IsSpace(s[i]) THEN SpacesEnd(s, i + 1) ELSE i

\* whether the literal lit stands at position i of s, ignoring case when ic
LitAt(s, i, lit, ic) ==
    /\ i + Len(lit) - 1 <= Len(s)
    /\ \A k \in 1..Len(lit) :
          IF ic THEN LowerChar(s[i + k - 1]) = LowerChar(lit[k]) ELSE s[i + k - 1] = lit[k]

\* the concatenation of the sequences of ss
RECURSIVE Flatten(_)
Flatten(ss) == IF ss = <<>> THEN <<>> ELSE Head(ss) \o Flatten(Tail(ss))

----------------------------------------------------------------------------
(* timer_detector.py *)

Plural(cond) == IF cond THEN "s" ELSE ""

\* the branch for seconds >= 3600
FormatHours(secs) ==
    LET hours == secs \div 3600
        remaining_minutes == (secs % 3600) \div 60
    IN  IF remaining_minutes > 0
        THEN ToString(hours) \o " hour" \o Plural(hours > 1) \o " "
             \o ToString(remaining_minutes) \o " minute" \o Plural(remaining_minutes > 1)
        ELSE ToString(hours) \o " hour" \o Plural(hours > 1)

\* the branch for 60 <= seconds < 3600
FormatMinutes(secs) ==
    LET minutes == secs \div 60
        remaining_seconds == secs % 60
    IN  IF remaining_seconds > 0
        THEN ToString(minutes) \o " minute" \o Plural(minutes > 1) \o " "
             \o ToString(remaining_seconds) \o " second" \o Plural(remaining_seconds > 1)
        ELSE ToString(minutes) \o " minute" \o Plural(minutes > 1)

\* the branch for seconds < 60
FormatSeconds(secs) == ToString(secs) \o " second" \o Plural(secs # 1)

\* mutant: the remainder seconds of the minutes branch are dropped
format_duration_minutes_only(secs) ==
    IF secs >= 3600 THEN FormatHours(secs)
    ELSE IF secs >= 60 THEN ToString(secs \div 60) \o " minute" \o Plural(secs \div 60 > 1)
    ELSE FormatSeconds(secs)

\* mutant: the seconds branch tests > 1 like the other branches
format_duration_plural_gt(secs) ==
    IF secs >= 3600 THEN FormatHours(secs)
    ELSE IF secs >= 60 THEN FormatMinutes(secs)
    ELSE ToString(secs) \o " second" \o Plural(secs > 1)

format_duration(secs) ==
    IF secs >= 3600 THEN FormatHours(secs)
    ELSE IF secs >= 60 THEN FormatMinutes(secs)
    ELSE FormatSeconds(secs)

\* mutant: the minute patterns are tried before the hour patterns
patterns_minutes_first == <<
    [is_range |-> TRUE,  units |-> <<<<"m","i","n","u","t","e">>, <<"m","i","n">>>>, multiplier |-> 60],
    [is_range |-> FALSE, units |-> <<<<"m","i","n","u","t","e">>, <<"m","i","n">>>>, multiplier |-> 60],
    [is_range |-> TRUE,  units |-> <<<<"h","o","u","r">>, <<"h","r">>>>,    multiplier |-> 3600],
    [is_range |-> FALSE, units |-> <<<<"h","o","u","r">>, <<"h","r">>>>,    multiplier |-> 3600],
    [is_range |-> TRUE,  units |-> <<<<"s","e","c","o","n","d">>, <<"s","e","c">>>>, multiplier |-> 1],
    [is_range |-> FALSE, units |-> <<<<"s","e","c","o","n","d">>, <<"s","e","c">>>>, multiplier |-> 1] >>

\* the six (pattern, multiplier) pairs, in the order of the list: is_range
\* tells the two-number patterns, units are the alternatives of the unit
\* group without their optional "s" (hours?|hrs?), in the order tried
patterns == <<
    [is_range |-> TRUE,  units |-> <<<<"h","o","u","r">>, <<"h","r">>>>,    multiplier |-> 3600],
    [is_range |-> FALSE, units |-> <<<<"h","o","u","r">>, <<"h","r">>>>,    multiplier |-> 3600],
    [is_range |-> TRUE,  units |-> <<<<"m","i","n","u","t","e">>, <<"m","i","n">>>>, multiplier |-> 60],
    [is_range |-> FALSE, units |-> <<<<"m","i","n","u","t","e">>, <<"m","i","n">>>>, multiplier |-> 60],
    [is_range |-> TRUE,  units |-> <<<<"s","e","c","o","n","d">>, <<"s","e","c">>>>, multiplier |-> 1],
    [is_range |-> FALSE, units |-> <<<<"s","e","c","o","n","d">>, <<"s","e","c">>>>, multiplier |-> 1] >>

\* \d+(?:\.\d+)? at position i: the position after the match, 0 when it fails.
\* Every quantifier of the patterns is followed by something its own class
\* cannot start, so the greedy choice is the only one that can succeed.
NumberEnd(s, i) ==
    LET e == DigitsEnd(s, i)
    IN  IF e = i THEN 0
        ELSE IF e <= Len(s) /\ s[e] = "." /\ DigitsEnd(s, e + 1) > e + 1
             THEN DigitsEnd(s, e + 1)
             ELSE e

\* (to|-) at position i, re.IGNORECASE: the position after it, 0 when it fails
SeparatorEnd(s, i) ==
    IF LitAt(s, i, <<"t","o">>, TRUE) THEN i + 2
    ELSE IF LitAt(s, i, <<"-">>, TRUE) THEN i + 1
    ELSE 0

\* (hours?|hrs?) at position i: the first alternative that matches, with its
\* optional "s" when one follows; 0 when no alternative matches
RECURSIVE UnitEnd(_, _, _, _)
UnitEnd(s, i, units, k) ==
    IF k > Len(units) THEN 0
    ELSE IF LitAt(s, i, units[k], TRUE)
         THEN LET e == i + Len(units[k])
              IN  IF LitAt(s, e, <<"s">>, TRUE) THEN e + 1 ELSE e
         ELSE UnitEnd(s, i, units, k + 1)

\* re.match of one pattern at position i: the groups of the match object
\* (as positions) or matched = FALSE
NoMatch == [matched |-> FALSE]

MatchAt(s, i, pattern) ==
    LET n1 == NumberEnd(s, i)
    IN  IF n1 = 0 THEN NoMatch
        ELSE IF pattern.is_range
        THEN LET sep == SeparatorEnd(s, SpacesEnd(s, n1))
                 b2  == IF sep = 0 THEN 0 ELSE SpacesEnd(s, sep)
                 n2  == IF sep = 0 THEN 0 ELSE NumberEnd(s, b2)
                 u   == IF n2 = 0 THEN 0 ELSE UnitEnd(s, SpacesEnd(s, n2), pattern.units, 1)
             IN  IF u = 0 THEN NoMatch
                 ELSE [matched |-> TRUE, start |-> i, end |-> u, ngroups |-> 3,
                       group1 |-> SubSeq(s, i, n1 - 1), group2 |-> SubSeq(s, b2, n2 - 1)]
        ELSE LET b == SpacesEnd(s, n1)
                 u == UnitEnd(s, b, pattern.units, 1)
             IN  IF u = 0 THEN NoMatch
                 ELSE [matched |-> TRUE, start |-> i, end |-> u, ngroups |-> 2,
                       group1 |-> SubSeq(s, i, n1 - 1), group2 |-> SubSeq(s, b, u - 1)]

\* re.finditer: the non-overlapping matches, scanning from position i
RECURSIVE finditer(_, _, _)
finditer(s, i, pattern) ==
    IF i > Len(s) THEN <<>>
    ELSE LET m == MatchAt(s, i, pattern)
         IN  IF m.matched THEN <<m>> \o finditer(s, m.end, pattern)
             ELSE finditer(s, i + 1, pattern)

\* float(text) for text matching \d+(?:\.\d+)?, as the exact decimal
\* num / 10^scale
RECURSIVE DigitsValue(_, _)
DigitsValue(s, acc) ==
    IF s = <<>> THEN acc
    ELSE IF s[1] = "." THEN DigitsValue(Tail(s), acc)
    ELSE DigitsValue(Tail(s), 10 * acc + DigitValue(s[1]))

RECURSIVE Pow10(_)
Pow10(n) == IF n = 0 THEN 1 ELSE 10 * Pow10(n - 1)

DecimalScale(s) ==
    IF \E k \in DOMAIN s : s[k] = "."
    THEN Len(s) - (CHOOSE k \in DOMAIN s : s[k] = ".")
    ELSE 0

float(s) == [num |-> DigitsValue(s, 0), scale |-> DecimalScale(s)]

\* the duration computed for one match
\* (the numbers of the model have decimal parts that floats carry exactly
\*  enough for int() to agree with the exact quotient)
MatchDuration(m, multiplier) ==
    IF m.ngroups > 2 /\ m.group2 # <<>> /\ IsDigit(m.group2[1])
    THEN LET num1 == float(m.group1)
             num2 == float(m.group2)
         IN  ((num1.num * Pow10(num2.scale) + num2.num * Pow10(num1.scale)) * multiplier)
                \div (2 * Pow10(num1.scale + num2.scale))
    ELSE LET num == float(m.group1)
         IN  (num.num * multiplier) \div Pow10(num.scale)

\* the dictionary appended for one match
TimerOf(s, m, multiplier) ==
    LET duration == MatchDuration(m, multiplier)
    IN  [text |-> SubSeq(s, m.start, m.end - 1),
         duration_seconds |-> duration,
         display |-> format_duration(duration)]

\* the inner loop: the timers of one pattern, in the order of the matches
PatternTimers(s, pattern) ==
    LET ms == finditer(s, 1, pattern)
    IN  [k \in DOMAIN ms |-> TimerOf(s, ms[k], pattern.multiplier)]

\* the outer loop over the patterns, from pattern k on
RECURSIVE TimersFrom(_, _)
TimersFrom(s, k) ==
    IF k > Len(patterns) THEN <<>>
    ELSE PatternTimers(s, patterns[k]) \o TimersFrom(s, k + 1)

\* whether sub occurs in s
Occurs(sub, s) == \E i \in 1..(Len(s) - Len(sub) + 1) : LitAt(s, i, sub, FALSE)

\* mutant: a timer whose text lies inside the text of an earlier timer is
\* dropped (overlapping matches deduplicated)
RECURSIVE Dedup(_, _)
Dedup(ts, kept) ==
    IF ts = <<>> THEN kept
    ELSE IF \E k \in DOMAIN kept : Occurs(Head(ts).text, kept[k].text)
         THEN Dedup(Tail(ts), kept)
         ELSE Dedup(Tail(ts), Append(kept, Head(ts)))

detect_timers_dedup(s) == Dedup(TimersFrom(s, 1), <<>>)

detect_timers(s) == TimersFrom(s, 1)

\* the test steps of the module's __main__ block
test_steps == <<
    <<"P","r","e","h","e","a","t"," ","o","v","e","n"," ","t","o"," ","3","5","0","°","F"," ","f","o","r"," ","1","0"," ","m","i","n","u","t","e","s",".">>,
    <<"B","a","k","e"," ","f","o","r"," ","2","5","-","3","0"," ","m","i","n","u","t","e","s"," ","u","n","t","i","l"," ","g","o","l","d","e","n"," ","b","r","o","w","n",".">>,
    <<"L","e","t"," ","i","t"," ","r","e","s","t"," ","f","o","r"," ","5"," ","m","i","n","s"," ","b","e","f","o","r","e"," ","s","e","r","v","i","n","g",".">>,
    <<"C","o","o","k"," ","f","o","r"," ","1"," ","h","o","u","r"," ","a","n","d"," ","3","0"," ","m","i","n","u","t","e","s",".">>,
    <<"S","i","m","m","e","r"," ","f","o","r"," ","2"," ","h","o","u","r","s",".">>,
    <<"M","i","c","r","o","w","a","v","e"," ","f","o","r"," ","4","5"," ","s","e","c","o","n","d","s",".">>,
    <<"W","a","i","t"," ","u","n","t","i","l"," ","b","u","b","b","l","e","s"," ","f","o","r","m"," ","(","n","o"," ","s","p","e","c","i","f","i","c"," ","t","i","m","e",")",".">> >>

----------------------------------------------------------------------------
(* ingredient_matcher.py *)

MEASUREMENTS == <<
    <<"c","u","p">>, <<"c","u","p","s">>, <<"t","a","b","l","e","s","p","o","o","n">>, <<"t","a","b","l","e","s","p","o","o","n","s">>, <<"t","b","s","p">>, <<"t","b","s">>,
    <<"t","e","a","s","p","o","o","n">>, <<"t","e","a","s","p","o","o","n","s">>, <<"t","s","p">>,
    <<"o","u","n","c","e">>, <<"o","u","n","c","e","s">>, <<"o","z">>,
    <<"p","o","u","n","d">>, <<"p","o","u","n","d","s">>, <<"l","b">>, <<"l","b","s">>,
    <<"g","r","a","m">>, <<"g","r","a","m","s">>, <<"g">>,
    <<"k","i","l","o","g","r","a","m">>, <<"k","i","l","o","g","r","a","m","s">>, <<"k","g">>,
    <<"m","i","l","l","i","l","i","t","e","r">>, <<"m","i","l","l","i","l","i","t","e","r","s">>, <<"m","l">>,
    <<"l","i","t","e","r">>, <<"l","i","t","e","r","s">>, <<"l">>,
    <<"o","f">>, <<"t","h","e">>, <<"a">>, <<"a","n">>,
    <<"s","i","f","t","e","d">>, <<"m","e","l","t","e","d">>, <<"u","n","s","a","l","t","e","d">>, <<"s","a","l","t","e","d">>,
    <<"b","e","a","t","e","n">>, <<"w","h","i","s","k","e","d">>, <<"c","h","o","p","p","e","d">>, <<"d","i","c","e","d">>, <<"m","i","n","c","e","d">>,
    <<"f","r","e","s","h">>, <<"d","r","i","e","d">>, <<"f","r","o","z","e","n">>,
    <<"l","a","r","g","e">>, <<"m","e","d","i","u","m">>, <<"s","m","a","l","l">>,
    <<"w","h","o","l","e">>, <<"h","a","l","f">>, <<"q","u","a","r","t","e","r">> >>

\* \b at position i of s, between s[i - 1] and s[i]
WordBoundary(s, i) ==
    (i > 1 /\ i - 1 <= Len(s) /\ IsWordChar(s[i - 1])) # (i >= 1 /\ i <= Len(s) /\ IsWordChar(s[i]))

\* whether \b<w>\b matches at position i of s, ignoring case when ic
WordAt(s, i, w, ic) ==
    /\ LitAt(s, i, w, ic)
    /\ WordBoundary(s, i)
    /\ WordBoundary(s, i + Len(w))

\* str.strip()
RECURSIVE LastNonSpace(_, _)
LastNonSpace(s, i) == IF i >= 1 /\ IsSpace(s[i]) THEN LastNonSpace(s, i - 1) ELSE i

strip(s) == SubSeq(s, SpacesEnd(s, 1), LastNonSpace(s, Len(s)))

\* s[i:] and s[:-n]
From(s, i) == SubSeq(s, i, Len(s))

DropLast(s, n) == SubSeq(s, 1, Len(s) - n)

endswith(s, suffix) ==
    Len(suffix) <= Len(s) /\ SubSeq(s, Len(s) - Len(suffix) + 1, Len(s)) = suffix

\* re.sub(r'^\d+[\s\/-]?\d*\/?\d*\s*', '', s): every part after \d+ is
\* optional, so the greedy choices always succeed
StripQuantity(s) ==
    IF s = <<>> \/ ~IsDigit(s[1]) THEN s
    ELSE LET e1 == DigitsEnd(s, 1)
             e2 == IF e1 <= Len(s) /\ (IsSpace(s[e1]) \/ s[e1] \in {"/", "-"}) THEN e1 + 1 ELSE e1
             e3 == DigitsEnd(s, e2)
             e4 == IF e3 <= Len(s) /\ s[e3] = "/" THEN e3 + 1 ELSE e3
             e5 == DigitsEnd(s, e4)
             e6 == SpacesEnd(s, e5)
         IN  From(s, e6)

\* re.sub(rf'\b{measure}\b', '', s, flags=re.IGNORECASE), from position i
RECURSIVE RemoveWord(_, _, _)
RemoveWord(s, i, measure) ==
    IF i > Len(s) THEN <<>>
    ELSE IF WordAt(s, i, measure, TRUE) THEN RemoveWord(s, i + Len(measure), measure)
    ELSE <<s[i]>> \o RemoveWord(s, i + 1, measure)

\* the loop over MEASUREMENTS, from measure k on (a function, so that the
\* text is computed at every turn the way the assignment to text does)
RemoveMeasurements[s \in Seq(STRING), k \in Nat] ==
    IF k > Len(MEASUREMENTS) THEN s
    ELSE RemoveMeasurements[RemoveWord(s, 1, MEASUREMENTS[k]), k + 1]

\* s.split(',')[0]
BeforeComma(s) ==
    IF \E k \in DOMAIN s : s[k] = ","
    THEN SubSeq(s, 1, (CHOOSE k \in DOMAIN s : s[k] = "," /\ \A j \in 1..(k - 1) : s[j] # ",") - 1)
    ELSE s

\* re.sub(r'\s+', ' ', s)
RECURSIVE CollapseSpaces(_, _)
CollapseSpaces(s, i) ==
    IF i > Len(s) THEN <<>>
    ELSE IF IsSpace(s[i]) THEN <<" ">> \o CollapseSpaces(s, SpacesEnd(s, i))
    ELSE <<s[i]>> \o CollapseSpaces(s, i + 1)

extract_ingredient_name(ingredient_line) ==
    LET text1 == StripQuantity(ingredient_line)
        text2 == RemoveMeasurements[text1, 1]
        text3 == strip(BeforeComma(text2))
    IN  strip(CollapseSpaces(text3, 1))

\* ingredient_name.split()[-1]: the last white-space separated word
RECURSIVE LastWordStart(_, _)
LastWordStart(s, i) == IF i >= 1 /\ ~IsSpace(s[i]) THEN LastWordStart(s, i - 1) ELSE i + 1

HasSeveralWords(s) == \E k \in DOMAIN strip(s) : IsSpace(strip(s)[k])

LastWord(s) == LET t == strip(s) IN From(t, LastWordStart(t, Len(t)))

get_ingredient_variations(ingredient_name) ==
    {Lower(ingredient_name)}
    \cup (IF endswith(ingredient_name, <<"s">>) /\ Len(ingredient_name) > 3
          THEN {Lower(DropLast(ingredient_name, 1))}
          ELSE {Lower(ingredient_name \o <<"s">>)})
    \cup (IF endswith(Lower(ingredient_name), <<"e","d">>)
          THEN {Lower(DropLast(ingredient_name, 2)), Lower(DropLast(ingredient_name, 1))}
          ELSE {})
    \cup (IF endswith(Lower(ingredient_name), <<"i","n","g">>)
          THEN {Lower(DropLast(ingredient_name, 3))}
          ELSE {})
    \cup (IF HasSeveralWords(ingredient_name) /\ Len(LastWord(ingredient_name)) > 3
          THEN {Lower(LastWord(ingredient_name))}
          ELSE {})

\* re.search(rf'\b{re.escape(variant)}\b', step_lower)
SearchWord(variant, step_lower) ==
    \E i \in 1..(Len(step_lower) - Len(variant) + 1) : WordAt(step_lower, i, variant, FALSE)

\* the variations of name on which the inner loop appends
MatchingVariations(name, step_lower) ==
    {variant \in get_ingredient_variations(name) :
        variant # <<>> /\ SearchWord(variant, step_lower)}

\* mutant: the inner loop has no break, so the ingredient is appended once
\* for every variation that occurs in the step
RECURSIVE Repeat(_, _)
Repeat(x, n) == IF n = 0 THEN <<>> ELSE <<x>> \o Repeat(x, n - 1)

IngredientMatches_no_break(ingredient, step_lower) ==
    LET name == extract_ingredient_name(ingredient)
    IN  IF name = <<>> THEN <<>>
        ELSE Repeat(ingredient, Cardinality(MatchingVariations(name, step_lower)))

\* one turn of the outer loop: what it appends to matched
IngredientMatches(ingredient, step_lower) ==
    LET name == extract_ingredient_name(ingredient)
    IN  IF name = <<>> THEN <<>>
        ELSE IF MatchingVariations(name, step_lower) # {} THEN <<ingredient>>
        ELSE <<>>

\* the outer loop, from ingredient k on
RECURSIVE MatchedFrom(_, _, _)
MatchedFrom(step_lower, ingredients_, k) ==
    IF k > Len(ingredients_) THEN <<>>
    ELSE IngredientMatches(ingredients_[k], step_lower) \o MatchedFrom(step_lower, ingredients_, k + 1)

match_ingredients_to_step(step_text_, ingredients_) ==
    MatchedFrom(Lower(step_text_), ingredients_, 1)

\* the test data of the module's __main__ block
test_ingredients == <<
    <<"1"," ","t","e","a","s","p","o","o","n"," ","s","a","l","t">>,
    <<"2"," ","t","e","a","s","p","o","o","n","s"," ","b","a","k","i","n","g"," ","p","o","w","d","e","r">>,
    <<"1"," ","t","e","a","s","p","o","o","n"," ","b","a","k","i","n","g"," ","s","o","d","a">>,
    <<"2"," ","c","u","p","s"," ","o","f"," ","s","i","f","t","e","d"," ","f","l","o","u","r">>,
    <<"2"," ","t","a","b","l","e","s","p","o","o","n","s"," ","s","u","g","a","r">>,
    <<"2"," ","e","g","g","s",","," ","s","l","i","g","h","t","l","y"," ","w","h","i","s","k","e","d">>,
    <<"2"," ","c","u","p","s"," ","o","f"," ","b","u","t","t","e","r","m","i","l","k">>,
    <<"2"," ","t","a","b","l","e","s","p","o","o","n","s"," ","b","u","t","t","e","r",","," ","u","n","s","a","l","t","e","d"," ","a","n","d"," ","m","e","l","t","e","d">> >>

test_step == <<"I","n"," ","a"," ","m","e","d","i","u","m"," ","b","o","w","l",","," ","w","h","i","s","k"," ","t","o","g","e","t","h","e","r"," ","t","h","e"," ","s","a","l","t",","," ","b","a","k","i","n","g"," ","p","o","w","d","e","r",","," ","b","a","k","i","n","g"," ","s","o","d","a",","," ","f","l","o","u","r"," ","a","n","d"," ","s","u","g","a","r",".">>

----------------------------------------------------------------------------
(* recipe_parser.py *)

\* Python's None (no string of characters equals it)
None == <<"None">>

\* content.split('\n'), the piece that starts at position i
RECURSIVE SplitLines(_, _)
SplitLines(s, i) ==
    IF \E k \in i..Len(s) : s[k] = "\n"
    THEN LET k == CHOOSE k \in i..Len(s) : s[k] = "\n" /\ \A j \in i..(k - 1) : s[j] # "\n"
         IN  <<SubSeq(s, i, k - 1)>> \o SplitLines(s, k + 1)
    ELSE <<SubSeq(s, i, Len(s))>>

startswith(s, prefix) == Len(prefix) <= Len(s) /\ SubSeq(s, 1, Len(prefix)) = prefix

\* the title loop: the first line that is not blank, stripped
RECURSIVE TitleOf(_, _)
TitleOf(lines, k) ==
    IF k > Len(lines) THEN <<>>
    ELSE IF strip(lines[k]) # <<>> THEN strip(lines[k])
    ELSE TitleOf(lines, k + 1)

\* line.split(":", 1)
SplitOnce(line, sep) ==
    IF \E k \in DOMAIN line : line[k] = sep
    THEN LET k == CHOOSE k \in DOMAIN line : line[k] = sep /\ \A j \in 1..(k - 1) : line[j] # sep
         IN  <<SubSeq(line, 1, k - 1), From(line, k + 1)>>
    ELSE <<line>>

\* the serves loop: [raised, value]; indexing the split with [1] raises
\* IndexError when the split has one part
RECURSIVE ServesOf(_, _)
ServesOf(lines, k) ==
    IF k > Len(lines) THEN [raised |-> FALSE, value |-> <<>>]
    ELSE IF startswith(Lower(lines[k]), <<"s","e","r","v","e","s",":">>)
         THEN LET parts == SplitOnce(lines[k], ":")
              IN  IF Len(parts) < 2 THEN [raised |-> TRUE, value |-> <<>>]
                  ELSE [raised |-> FALSE, value |-> strip(parts[2])]
    ELSE ServesOf(lines, k + 1)

\* stripped.lower() == header
IsHeader(line, header) == Lower(strip(line)) = header

\* the ingredient loop from line k on, in_ingredients being the flag
RECURSIVE IngredientsFrom(_, _, _)
IngredientsFrom(lines, k, in_ingredients) ==
    IF k > Len(lines) THEN <<>>
    ELSE IF IsHeader(lines[k], <<"i","n","g","r","e","d","i","e","n","t","s",":">>) THEN IngredientsFrom(lines, k + 1, TRUE)
    ELSE IF IsHeader(lines[k], <<"i","n","s","t","r","u","c","t","i","o","n","s",":">>) THEN <<>>
    ELSE IF in_ingredients /\ strip(lines[k]) # <<>>
         THEN <<strip(lines[k])>> \o IngredientsFrom(lines, k + 1, in_ingredients)
    ELSE IngredientsFrom(lines, k + 1, in_ingredients)

\* the notes loop from line k on: notes_lines
RECURSIVE NotesLinesFrom(_, _, _)
NotesLinesFrom(lines, k, in_notes) ==
    IF k > Len(lines) THEN <<>>
    ELSE IF IsHeader(lines[k], <<"n","o","t","e","s",":">>) THEN NotesLinesFrom(lines, k + 1, TRUE)
    ELSE IF in_notes /\ (IsHeader(lines[k], <<"i","n","s","t","r","u","c","t","i","o","n","s",":">>) \/ IsHeader(lines[k], <<"i","n","g","r","e","d","i","e","n","t","s",":">>))
         THEN <<>>
    ELSE IF in_notes /\ strip(lines[k]) # <<>>
         THEN <<strip(lines[k])>> \o NotesLinesFrom(lines, k + 1, in_notes)
    ELSE NotesLinesFrom(lines, k + 1, in_notes)

\* '\n'.join(notes_lines)
RECURSIVE join(_, _)
join(sep, ss) ==
    IF ss = <<>> THEN <<>>
    ELSE IF Len(ss) = 1 THEN ss[1]
    ELSE ss[1] \o sep \o join(sep, Tail(ss))

NotesOf(lines) ==
    LET notes_lines == NotesLinesFrom(lines, 1, FALSE)
    IN  IF notes_lines # <<>> THEN join(<<"\n">>, notes_lines) ELSE None

\* re.match(r'^(\d+)\.\s+(.+)$', stripped): stripped ends in no white
\* space, so after the greedy \s+ the rest is the whole of (.+)
NumberedStep(stripped) ==
    LET e == DigitsEnd(stripped, 1)
        b == SpacesEnd(stripped, e + 1)
    IN  IF e > 1 /\ e <= Len(stripped) /\ stripped[e] = "." /\ b > e + 1 /\ b <= Len(stripped)
        THEN [matched |-> TRUE, group1 |-> SubSeq(stripped, 1, e - 1), group2 |-> From(stripped, b)]
        ELSE NoMatch

NewStep(number, text) ==
    [number |-> number, text |-> text, ingredients |-> <<>>, timers |-> <<>>]

\* the lists of step dictionaries of the instruction loop
StepLists == Seq([number : Nat, text : Seq(STRING), ingredients : {<<>>}, timers : {<<>>}])

\* the instruction loop from line k on; current_step is <<>> for None and
\* <<step>> otherwise; the result is steps with the last step added
\* (a function, so that the lists are computed at every turn)
InstructionSteps[lines \in Seq(Seq(STRING)), k \in Nat, in_instructions \in BOOLEAN, current_step \in StepLists, steps_ \in StepLists] ==
    IF k > Len(lines) THEN steps_ \o current_step
    ELSE LET stripped == strip(lines[k])
             match == NumberedStep(stripped)
         IN  IF IsHeader(lines[k], <<"i","n","s","t","r","u","c","t","i","o","n","s",":">>)
             THEN InstructionSteps[lines, k + 1, TRUE, current_step, steps_]
             ELSE IF ~in_instructions
             THEN InstructionSteps[lines, k + 1, in_instructions, current_step, steps_]
             ELSE IF match.matched
             THEN InstructionSteps[lines, k + 1, in_instructions,
                                   <<NewStep(DigitsValue(match.group1, 0), match.group2)>>,
                                   steps_ \o current_step]
             ELSE IF current_step # <<>> /\ stripped # <<>>
             THEN InstructionSteps[lines, k + 1, in_instructions,
                                   <<[current_step[1] EXCEPT !.text = @ \o <<" ">> \o stripped]>>,
                                   steps_]
             ELSE InstructionSteps[lines, k + 1, in_instructions, current_step, steps_]

\* re.split(r'(?<=[.!?])\s+', text): the pieces from position i on, the
\* current piece having started at position start
RECURSIVE SplitSentences(_, _, _)
SplitSentences(text, start, i) ==
    IF i > Len(text) THEN <<SubSeq(text, start, Len(text))>>
    ELSE IF i > 1 /\ text[i - 1] \in {".", "!", "?"} /\ IsSpace(text[i])
         THEN <<SubSeq(text, start, i - 1)>>
              \o SplitSentences(text, SpacesEnd(text, i), SpacesEnd(text, i))
    ELSE SplitSentences(text, start, i + 1)

\* the sentences of one step that the inner loop appends: stripped, not empty
StepSentences(text) ==
    LET sentences == SplitSentences(text, 1, 1)
        Kept(sentence) == strip(sentence) # <<>>
        kept == SelectSeq(sentences, Kept)
    IN  [k \in DOMAIN kept |-> strip(kept[k])]

\* the sentences of all the steps, in order
RECURSIVE AllSentences(_, _)
AllSentences(steps_, k) ==
    IF k > Len(steps_) THEN <<>>
    ELSE StepSentences(steps_[k].text) \o AllSentences(steps_, k + 1)

\* mutant: the number of a sentence step is the number of the step it was
\* split from
break_into_sentences_keep_number(steps_) ==
    LET Numbered(k) == [j \in DOMAIN StepSentences(steps_[k].text) |->
                           NewStep(steps_[k].number, StepSentences(steps_[k].text)[j])]
    IN  Flatten([k \in DOMAIN steps_ |-> Numbered(k)])

\* number is len(sentence_steps) + 1 at the time of the append
break_into_sentences(steps_) ==
    LET sentences == AllSentences(steps_, 1)
    IN  [k \in DOMAIN sentences |-> NewStep(k, sentences[k])]

\* mutant: the last step is not added after the loop
parse_steps_without_last(lines) ==
    LET all == InstructionSteps[lines, 1, FALSE, <<>>, <<>>]
    IN  break_into_sentences(SubSeq(all, 1, Len(all) - 1))

\* the instruction loop, the last step and the sentence split
parse_steps(lines) == break_into_sentences(InstructionSteps[lines, 1, FALSE, <<>>, <<>>])

parse_recipe_text(content_) ==
    LET lines == SplitLines(content_, 1)
        serves == ServesOf(lines, 1)
    IN  IF serves.raised
        THEN [raised |-> TRUE, title |-> <<>>, serves |-> <<>>, ingredients |-> <<>>,
              steps |-> <<>>, notes |-> None]
        ELSE [raised |-> FALSE,
              title |-> TitleOf(lines, 1),
              serves |-> serves.value,
              ingredients |-> IngredientsFrom(lines, 1, FALSE),
              steps |-> parse_steps(lines),
              notes |-> NotesOf(lines)]

----------------------------------------------------------------------------
(* app.py: detect_preheat_oven and process_recipe_steps *)

\* (F|C|fahrenheit|celsius)? at position i, re.IGNORECASE: the text of the
\* first alternative that matches, None when the group takes no part
RECURSIVE UnitGroup(_, _, _, _)
UnitGroup(s, i, alternatives, k) ==
    IF k > Len(alternatives) THEN None
    ELSE IF LitAt(s, i, alternatives[k], TRUE) THEN SubSeq(s, i, i + Len(alternatives[k]) - 1)
    ELSE UnitGroup(s, i, alternatives, k + 1)

\* preheat_pattern at position i.  What follows (\d+) is optional, so the
\* greedy choices succeed; before it every \s+ is followed by a letter.
PreheatAt(s, i) ==
    LET w1 == SpacesEnd(s, i + 7)
        t  == SpacesEnd(s, w1 + 3)
        o  == IF LitAt(s, w1, <<"t","h","e">>, TRUE) /\ t > w1 + 3 THEN t ELSE w1
        w2 == SpacesEnd(s, o + 4)
        w3 == SpacesEnd(s, w2 + 2)
        d  == DigitsEnd(s, w3)
        a  == SpacesEnd(s, d)
        b  == IF a <= Len(s) /\ s[a] = "°" THEN a + 1 ELSE a
        c  == SpacesEnd(s, b)
    IN  IF /\ LitAt(s, i, <<"p","r","e","h","e","a","t">>, TRUE) /\ w1 > i + 7
           /\ LitAt(s, o, <<"o","v","e","n">>, TRUE) /\ w2 > o + 4
           /\ LitAt(s, w2, <<"t","o">>, TRUE) /\ w3 > w2 + 2
           /\ d > w3
        THEN [matched |-> TRUE, group1 |-> SubSeq(s, w3, d - 1),
              group2 |-> UnitGroup(s, c, << <<"F">>, <<"C">>, <<"f","a","h","r","e","n","h","e","i","t">>, <<"c","e","l","s","i","u","s">> >>, 1)]
        ELSE NoMatch

\* preheat_pattern.search(text): the first match from position i on
RECURSIVE PreheatSearch(_, _)
PreheatSearch(s, i) ==
    IF i > Len(s) THEN NoMatch
    ELSE IF PreheatAt(s, i).matched THEN PreheatAt(s, i)
    ELSE PreheatSearch(s, i + 1)

\* the instruction appended for one match
PreheatInstruction(match) ==
    LET temp == match.group1
        unit == IF match.group2 # None THEN match.group2 ELSE <<"F">>
    IN  <<"P","r","e","h","e","a","t"," ","o","v","e","n"," ","t","o"," ">> \o temp
            \o (IF Lower(unit) \in { <<"c">>, <<"c","e","l","s","i","u","s">> } THEN <<"°","C">> ELSE <<"°","F">>)

\* the loop over the steps, from step k on
RECURSIVE detect_preheat_oven_from(_, _)
detect_preheat_oven_from(steps_, k) ==
    IF k > Len(steps_) THEN <<>>
    ELSE LET match == PreheatSearch(steps_[k].text, 1)
         IN  (IF match.matched THEN <<PreheatInstruction(match)>> ELSE <<>>)
                 \o detect_preheat_oven_from(steps_, k + 1)

detect_preheat_oven(steps_) == detect_preheat_oven_from(steps_, 1)

\* the truth value of a string or None ("if notes:")
Truthy(x) == x # None /\ x # <<>>

\* whether the dictionary d has the key flag with a true value
HasFlag(d, flag) == flag \in DOMAIN d /\ d[flag]

\* The step dictionaries are objects: step_heap[r] is the dictionary with
\* reference r, and a list of steps is a sequence of references.
Deref(heap, refs) == [k \in DOMAIN refs |-> heap[refs[k]]]

ingredients_step(all_ingredients, preheat_instructions_) ==
    [number |-> 0, text |-> <<"G","a","t","h","e","r"," ","t","h","e","s","e"," ","i","n","g","r","e","d","i","e","n","t","s",":">>,
     ingredients |-> all_ingredients, timers |-> <<>>,
     is_ingredients_list |-> TRUE, preheat |-> preheat_instructions_]

notes_step(notes, number) ==
    [number |-> number, text |-> notes, ingredients |-> <<>>, timers |-> <<>>,
     is_notes_page |-> TRUE]

final_step(number) ==
    [number |-> number, text |-> <<"B","o","n"," ","A","p","p","e","t","i","t","!">>, ingredients |-> <<>>, timers |-> <<>>,
     is_final_page |-> TRUE]

\* mutant: the step is annotated but keeps the number it came with
AnnotatedStep_not_renumbered(step, all_ingredients, number) ==
    [step EXCEPT !.ingredients = match_ingredients_to_step(step.text, all_ingredients),
                 !.timers = detect_timers(step.text)]

\* one turn of the loop over the steps: the three assignments to the step
AnnotatedStep(step, all_ingredients, number) ==
    [step EXCEPT !.ingredients = match_ingredients_to_step(step.text, all_ingredients),
                 !.timers = detect_timers(step.text),
                 !.number = number]

\* the place in processed_steps of the last occurrence of reference r in refs,
\* offset steps standing before them
LastPlace(refs, r, offset) ==
    offset + (CHOOSE k \in DOMAIN refs : refs[k] = r /\ \A j \in (k + 1)..Len(refs) : refs[j] # r) - 1

\* the references of processed_steps and the new dictionaries, n dictionaries
\* existing before the call
ProcessedLayout(recipe, heap) ==
    LET n == Len(heap)
        notes == recipe.notes
        prefix == IF Truthy(notes) THEN <<n + 1, n + 2>> ELSE <<n + 1>>
        new_steps ==
            <<ingredients_step(recipe.ingredients, detect_preheat_oven(Deref(heap, recipe.steps)))>>
                \o (IF Truthy(notes) THEN <<notes_step(notes, 1)>> ELSE <<>>)
                \o <<final_step(Len(prefix) + Len(recipe.steps))>>
    IN  [processed_steps |-> prefix \o recipe.steps \o <<n + Len(prefix) + 1>>,
         offset |-> Len(prefix),
         new_steps |-> new_steps]

\* mutant: the steps are annotated on copies, the dictionaries given are
\* left as they were
process_recipe_steps_on_copies(recipe, heap) ==
    LET layout == ProcessedLayout(recipe, heap)
        given == recipe.steps
        copies == [k \in DOMAIN given |->
                      AnnotatedStep(heap[given[k]], recipe.ingredients, layout.offset + k - 1)]
        base == Len(heap) + Len(layout.new_steps)
    IN  [recipe_data |-> [recipe EXCEPT !.steps =
                             SubSeq(layout.processed_steps, 1, layout.offset)
                                 \o [k \in DOMAIN given |-> base + k]
                                 \o <<layout.processed_steps[Len(layout.processed_steps)]>>],
         step_heap |-> heap \o layout.new_steps \o copies]

\* mutant: a step that matches no ingredient carries over the ingredients
\* of the step before it
process_recipe_steps_carry_over(recipe, heap) ==
    LET layout == ProcessedLayout(recipe, heap)
        given == recipe.steps
        annotated == [r \in DOMAIN heap |->
                         IF \E k \in DOMAIN given : given[k] = r
                         THEN AnnotatedStep(heap[r], recipe.ingredients,
                                            LastPlace(given, r, layout.offset))
                         ELSE heap[r]]
        carried == [r \in DOMAIN heap |->
                       IF /\ \E k \in DOMAIN given : k > 1 /\ given[k] = r
                          /\ annotated[r].ingredients = <<>>
                       THEN [annotated[r] EXCEPT !.ingredients =
                                annotated[given[(CHOOSE k \in DOMAIN given : k > 1 /\ given[k] = r) - 1]].ingredients]
                       ELSE annotated[r]]
    IN  [recipe_data |-> [recipe EXCEPT !.steps = layout.processed_steps],
         step_heap |-> carried \o layout.new_steps]

\* the dictionary recipe_data after the call (the object given, which is
\* also the object returned) and the heap after the call
process_recipe_steps(recipe, heap) ==
    LET layout == ProcessedLayout(recipe, heap)
        given == recipe.steps
        annotated == [r \in DOMAIN heap |->
                         IF \E k \in DOMAIN given : given[k] = r
                         THEN AnnotatedStep(heap[r], recipe.ingredients,
                                            LastPlace(given, r, layout.offset))
                         ELSE heap[r]]
    IN  [recipe_data |-> [recipe EXCEPT !.steps = layout.processed_steps],
         step_heap |-> annotated \o layout.new_steps]

----------------------------------------------------------------------------
(* app.py: the saved recipes.  A saved recipe is modelled with its id, its *)
(* title, serves for the fields copied from the request, and saved_at.     *)

\* load_saved_recipes(): [] when the file does not exist or does not hold
\* JSON (a file opened for writing is empty until json.dump has written)
load_saved_recipes(file, truncated) == IF truncated THEN <<>> ELSE file

\* the index of the first recipe with the title, 0 for None
existing_index(recipes, title) ==
    IF \E i \in DOMAIN recipes : recipes[i].title = title
    THEN CHOOSE i \in DOMAIN recipes :
             recipes[i].title = title /\ \A j \in 1..(i - 1) : recipes[j].title # title
    ELSE 0

\* recipe_to_save, the clock reading timestamp milliseconds
recipe_to_save(recipes, data, timestamp) ==
    [id |-> IF existing_index(recipes, data.title) # 0
            THEN recipes[existing_index(recipes, data.title)].id
            ELSE ToString(timestamp),
     title |-> data.title, serves |-> data.serves, saved_at |-> timestamp]

\* the list recipes after the replacement or the insert of save_recipe_endpoint
SavedRecipes(recipes, data, timestamp) ==
    IF existing_index(recipes, data.title) # 0
    THEN [recipes EXCEPT ![existing_index(recipes, data.title)] =
             recipe_to_save(recipes, data, timestamp)]
    ELSE <<recipe_to_save(recipes, data, timestamp)>> \o recipes

\* the list recipes after the filter of delete_saved_recipe
DeletedRecipes(recipes, recipe_id) ==
    LET Other(r) == r.id # recipe_id IN SelectSeq(recipes, Other)

\* "if not data or 'title' not in data"
IsValidData(data) == "title" \in DOMAIN data

\* the response of save_recipe_endpoint
SaveResponse(recipes, data, timestamp) ==
    IF ~IsValidData(data) THEN [status |-> 400, success |-> FALSE]
    ELSE [status |-> 200, success |-> TRUE,
          isUpdate |-> existing_index(recipes, data.title) # 0,
          id |-> recipe_to_save(recipes, data, timestamp).id]

\* the response of delete_saved_recipe
DeleteResponse(recipes, recipe_id) ==
    IF Len(DeletedRecipes(recipes, recipe_id)) = Len(recipes)
    THEN [status |-> 404, success |-> FALSE]
    ELSE [status |-> 200, success |-> TRUE]

----------------------------------------------------------------------------
(* Inputs of detect_timers: the test steps of the source, and every text   *)
(* made of at most MaxPhrases pieces, each a filler, a range phrase        *)
(* "<a>-<b> <unit>" or a singular phrase "<a> <unit>".                     *)

MaxPhrases == 3

Fillers == { <<"B","a","k","e"," ","f","o","r"," ">>, <<"C","o","o","k"," ","f","o","r"," ">>, <<" ","a","n","d"," ">>, <<" ","u","n","t","i","l"," ","g","o","l","d","e","n"," ","b","r","o","w","n",".">> }

\* a and b are the numbers as written (a10 and b10 their values in tenths;
\* they are integers or end in .5, which binary floats carry exactly), sep
\* the separator with the white space around it, ws the white space before
\* the unit, mult the seconds in one unit, family the index in patterns of
\* the pattern written for such a phrase
RangePhrases == {
    [a |-> <<"2","5">>,  sep |-> <<"-">>,    b |-> <<"3","0">>,   ws |-> <<" ">>, unit |-> <<"m","i","n","u","t","e","s">>, family |-> 3, a10 |-> 250, b10 |-> 300, mult |-> 60],
    [a |-> <<"5">>,   sep |-> <<" ","t","o"," ">>, b |-> <<"1","0">>,   ws |-> <<" ">>, unit |-> <<"m","i","n","s">>,    family |-> 3, a10 |-> 50,  b10 |-> 100, mult |-> 60],
    [a |-> <<"1",".","5">>, sep |-> <<"-">>,    b |-> <<"2",".","5">>,  ws |-> <<" ">>, unit |-> <<"h","r","s">>,     family |-> 1, a10 |-> 15,  b10 |-> 25,  mult |-> 3600],
    [a |-> <<"3","0">>,  sep |-> <<" ","-"," ">>,  b |-> <<"4","5",".","5">>, ws |-> <<>>,  unit |-> <<"S","e","c","o","n","d","s">>, family |-> 5, a10 |-> 300, b10 |-> 455, mult |-> 1] }

SingularPhrases == {
    [a |-> <<"1">>,  ws |-> <<" ">>, unit |-> <<"h","o","u","r">>,    family |-> 2, a10 |-> 10,  mult |-> 3600],
    [a |-> <<"2">>,  ws |-> <<" ">>, unit |-> <<"H","O","U","R","S">>,   family |-> 2, a10 |-> 20,  mult |-> 3600],
    [a |-> <<"3","0">>, ws |-> <<" ">>, unit |-> <<"m","i","n","u","t","e","s">>, family |-> 4, a10 |-> 300, mult |-> 60],
    [a |-> <<"4","5">>, ws |-> <<>>,  unit |-> <<"s","e","c">>,     family |-> 6, a10 |-> 450, mult |-> 1] }

RangeText(p) == p.a \o p.sep \o p.b \o p.ws \o p.unit

SingularText(p) == p.a \o p.ws \o p.unit

Phrases ==
    Fillers \cup {RangeText(p) : p \in RangePhrases} \cup {SingularText(p) : p \in SingularPhrases}

\* the test steps and the texts of at most max pieces
StepTexts(max) ==
    Range(test_steps)
        \cup {Flatten(ps) : ps \in UNION {[1..n -> Phrases] : n \in 0..max}}

----------------------------------------------------------------------------
(* Specifications: each applies one function of the source to its inputs.  *)

TimerIdle == step_text = <<>> /\ timers = <<>>

FormatIdle == seconds = 0 /\ display = ""

MatchIdle == ingredients = <<>> /\ matched = <<>>

ParseIdle == content = <<>> /\ parsed = <<>> /\ steps = <<>> /\ sentence_steps = <<>>

ProcessIdle == recipe_data = <<>> /\ step_heap = <<>> /\ calls = 0

PreheatIdle == preheat_instructions = <<>>

StoreIdle ==
    saved_recipes_file = <<>> /\ file_truncated = FALSE /\ now = 0 /\ handler = <<>>

\* detect_timers(step_text)
InitTimers ==
    /\ pc = "start"
    /\ step_text \in StepTexts(MaxPhrases)
    /\ timers = <<>>
    /\ FormatIdle
    /\ MatchIdle
    /\ ParseIdle
    /\ ProcessIdle
    /\ PreheatIdle
    /\ StoreIdle

DetectTimers ==
    /\ pc = "start"
    /\ timers' = detect_timers(step_text)
    /\ pc' = "done"
    /\ UNCHANGED <<step_text, seconds, display, ingredients, matched,
                   content, parsed, steps, sentence_steps,
                   recipe_data, step_heap, calls, preheat_instructions,
                   saved_recipes_file, file_truncated, now, handler>>

SpecTimers == InitTimers /\ [][DetectTimers]_vars

\* format_duration(seconds)
MaxSeconds == 7400

InitFormat ==
    /\ pc = "start"
    /\ seconds \in 0..MaxSeconds
    /\ display = ""
    /\ TimerIdle
    /\ MatchIdle
    /\ ParseIdle
    /\ ProcessIdle
    /\ PreheatIdle
    /\ StoreIdle

FormatDuration ==
    /\ pc = "start"
    /\ display' = format_duration(seconds)
    /\ pc' = "done"
    /\ UNCHANGED <<step_text, timers, seconds, ingredients, matched,
                   content, parsed, steps, sentence_steps,
                   recipe_data, step_heap, calls, preheat_instructions,
                   saved_recipes_file, file_truncated, now, handler>>

SpecFormat == InitFormat /\ [][FormatDuration]_vars

\* match_ingredients_to_step(step_text, ingredients): the test data of the
\* source, and every list of at most MaxIngredients lines of IngredientLines
\* with every step of MatchSteps
MaxIngredients == 2

IngredientLines == {
    <<"1"," ","t","e","a","s","p","o","o","n"," ","s","a","l","t">>, <<"2"," ","t","e","a","s","p","o","o","n","s"," ","b","a","k","i","n","g"," ","p","o","w","d","e","r">>, <<"2"," ","c","u","p","s"," ","o","f"," ","s","i","f","t","e","d"," ","f","l","o","u","r">>,
    <<"2"," ","e","g","g","s",","," ","s","l","i","g","h","t","l","y"," ","w","h","i","s","k","e","d">>, <<"1"," ","c","u","p">>, <<"1","/","2"," ","c","u","p"," ","c","h","o","p","p","e","d"," ","o","n","i","o","n","s">>, <<"3"," ","E","g","g","s">> }

MatchSteps == {
    test_step,
    <<"w","h","i","s","k"," ","t","o","g","e","t","h","e","r"," ","t","h","e"," ","s","a","l","t",","," ","b","a","k","i","n","g"," ","p","o","w","d","e","r",","," ","b","a","k","i","n","g"," ","s","o","d","a",","," ","f","l","o","u","r"," ","a","n","d"," ","s","u","g","a","r">>,
    <<"A","d","d"," ","t","h","e"," ","e","g","g","s"," ","a","n","d"," ","t","h","e"," ","o","n","i","o","n",","," ","t","h","e","n"," ","l","i","n","e"," ","t","h","e"," ","b","a","k","i","n","g"," ","s","h","e","e","t",".">>,
    <<"S","u","g","a","r"," ","f","i","r","s","t",","," ","t","h","e","n"," ","S","A","L","T"," ","a","n","d"," ","F","l","o","u","r",".">> }

InitMatch ==
    /\ pc = "start"
    /\ step_text \in MatchSteps
    /\ ingredients \in {test_ingredients}
                         \cup UNION {[1..n -> IngredientLines] : n \in 0..MaxIngredients}
    /\ matched = <<>>
    /\ timers = <<>>
    /\ FormatIdle
    /\ ParseIdle
    /\ ProcessIdle
    /\ PreheatIdle
    /\ StoreIdle

MatchIngredientsToStep ==
    /\ pc = "start"
    /\ matched' = match_ingredients_to_step(step_text, ingredients)
    /\ pc' = "done"
    /\ UNCHANGED <<step_text, timers, seconds, display, ingredients,
                   content, parsed, steps, sentence_steps,
                   recipe_data, step_heap, calls, preheat_instructions,
                   saved_recipes_file, file_truncated, now, handler>>

SpecMatch == InitMatch /\ [][MatchIngredientsToStep]_vars

\* parse_recipe_text(content): every text of at most MaxLines lines, each a
\* line of RecipeLines
MaxLines == 5

RecipeLines == {
    <<"S","e","r","v","e","s",":"," ","4">>, <<" "," ","S","e","r","v","e","s",":"," ","6">>, <<"I","n","g","r","e","d","i","e","n","t","s",":">>, <<"f","l","o","u","r">>, <<"N","o","t","e","s",":">>,
    <<"I","n","s","t","r","u","c","t","i","o","n","s",":">>, <<"1","."," ","M","i","x","."," ","E","a","t">> }

\* the texts of at most max lines
Contents(max) == {join(<<"\n">>, ls) : ls \in UNION {[1..n -> RecipeLines] : n \in 0..max}}

InitParse ==
    /\ pc = "start"
    /\ content \in Contents(MaxLines)
    /\ parsed = <<>>
    /\ steps = <<>>
    /\ sentence_steps = <<>>
    /\ TimerIdle
    /\ FormatIdle
    /\ MatchIdle
    /\ ProcessIdle
    /\ PreheatIdle
    /\ StoreIdle

ParseRecipeText ==
    /\ pc = "start"
    /\ parsed' = parse_recipe_text(content)
    /\ pc' = "done"
    /\ UNCHANGED <<step_text, timers, seconds, display, ingredients, matched,
                   content, steps, sentence_steps,
                   recipe_data, step_heap, calls, preheat_instructions,
                   saved_recipes_file, file_truncated, now, handler>>

SpecParse == InitParse /\ [][ParseRecipeText]_vars

\* break_into_sentences(steps), and break_into_sentences on its own result:
\* every list of at most MaxParsedSteps steps whose texts are texts the
\* instruction loop can build (stripped, not empty) of at most MaxTextLen
\* characters of SentenceChars
MaxParsedSteps == 2

MaxTextLen == 3

SentenceChars == {"a", ".", " "}

\* the texts t of 1..MaxTextLen characters with strip(t) = t: white space
\* neither first nor last
SentenceTexts ==
    LET NonSpace == {c \in SentenceChars : ~IsSpace(c)}
        Middles == UNION {[1..n -> SentenceChars] : n \in 0..(MaxTextLen - 2)}
    IN  {<<c>> : c \in NonSpace}
            \cup {<<a>> \o m \o <<b>> : a \in NonSpace, m \in Middles, b \in NonSpace}

\* the numbers are the ones written in the recipe: 2, 4, ...
ParsedSteps(texts) == [k \in DOMAIN texts |-> NewStep(2 * k, texts[k])]

InitSentences ==
    /\ pc = "start"
    /\ \E texts \in UNION {[1..n -> SentenceTexts] : n \in 0..MaxParsedSteps} :
           steps = ParsedSteps(texts)
    /\ sentence_steps = <<>>
    /\ content = <<>>
    /\ parsed = <<>>
    /\ TimerIdle
    /\ FormatIdle
    /\ MatchIdle
    /\ ProcessIdle
    /\ PreheatIdle
    /\ StoreIdle

BreakIntoSentences ==
    /\ pc = "start"
    /\ sentence_steps' = break_into_sentences(steps)
    /\ pc' = "once"
    /\ UNCHANGED <<step_text, timers, seconds, display, ingredients, matched,
                   content, parsed, steps,
                   recipe_data, step_heap, calls, preheat_instructions,
                   saved_recipes_file, file_truncated, now, handler>>

BreakIntoSentencesAgain ==
    /\ pc = "once"
    /\ sentence_steps' = break_into_sentences(sentence_steps)
    /\ pc' = "twice"
    /\ UNCHANGED <<step_text, timers, seconds, display, ingredients, matched,
                   content, parsed, steps,
                   recipe_data, step_heap, calls, preheat_instructions,
                   saved_recipes_file, file_truncated, now, handler>>

NextSentences == BreakIntoSentences \/ BreakIntoSentencesAgain

SpecSentences == InitSentences /\ [][NextSentences]_vars

\* process_recipe_steps(recipe_data), called up to MaxCalls times on the same
\* dictionary: every recipe of at most MaxSteps steps with texts of
\* ProcessStepTexts, numbered 1, 2, ... as break_into_sentences numbers them
MaxSteps == 2

MaxCalls == 2

ProcessStepTexts == {
    <<"P","r","e","h","e","a","t"," ","t","h","e"," ","o","v","e","n"," ","t","o"," ","3","5","0","°","F",".">>, <<"B","a","k","e"," ","f","o","r"," ","2","5","-","3","0"," ","m","i","n","u","t","e","s",".">>,
    <<"A","d","d"," ","t","h","e"," ","f","l","o","u","r"," ","a","n","d"," ","s","a","l","t",".">>, <<"S","e","r","v","e",".">> }

ProcessIngredients == { <<>>, << <<"2"," ","c","u","p","s"," ","o","f"," ","s","i","f","t","e","d"," ","f","l","o","u","r">>, <<"1"," ","t","e","a","s","p","o","o","n"," ","s","a","l","t">> >> }

ProcessNotes == { None, <<>>, <<"R","e","s","t"," ","t","h","e"," ","b","a","t","t","e","r",".">> }

ProcessSteps(texts) == [k \in DOMAIN texts |-> NewStep(k, texts[k])]

InitProcess ==
    /\ pc = "start"
    /\ \E texts \in UNION {[1..n -> ProcessStepTexts] : n \in 0..MaxSteps} :
           step_heap = ProcessSteps(texts)
    /\ \E ingredients_ \in ProcessIngredients, notes \in ProcessNotes :
           recipe_data = [title |-> <<"P","a","n","c","a","k","e","s">>, serves |-> <<"4">>,
                          ingredients |-> ingredients_,
                          steps |-> [k \in DOMAIN step_heap |-> k],
                          notes |-> notes]
    /\ calls = 0
    /\ TimerIdle
    /\ FormatIdle
    /\ MatchIdle
    /\ ParseIdle
    /\ PreheatIdle
    /\ StoreIdle

ProcessRecipeSteps ==
    /\ calls < MaxCalls
    /\ LET result == process_recipe_steps(recipe_data, step_heap)
       IN  /\ recipe_data' = result.recipe_data
           /\ step_heap' = result.step_heap
    /\ calls' = calls + 1
    /\ UNCHANGED <<pc, step_text, timers, seconds, display, ingredients, matched,
                   content, parsed, steps, sentence_steps, preheat_instructions,
                   saved_recipes_file, file_truncated, now, handler>>

SpecProcess == InitProcess /\ [][ProcessRecipeSteps]_vars

\* detect_preheat_oven(steps): every list of at most MaxPreheatSteps steps
\* with texts of PreheatStepTexts
MaxPreheatSteps == 2

PreheatStepTexts == {
    <<"P","r","e","h","e","a","t"," ","t","h","e"," ","o","v","e","n"," ","t","o"," ","3","5","0","°","F",".">>, <<"p","r","e","h","e","a","t"," ","o","v","e","n"," ","t","o"," ","1","8","0"," ","C">>,
    <<"P","R","E","H","E","A","T"," ","O","V","E","N"," ","T","O"," ","4","2","5">>, <<"P","r","e","h","e","a","t"," ","t","h","e"," ","o","v","e","n"," ","t","o"," ","2","0","0"," ","c","e","l","s","i","u","s",".">>,
    <<"P","r","e","h","e","a","t"," ","o","v","e","n"," ","t","o"," ","2","2","0"," ","°"," ","F","a","h","r","e","n","h","e","i","t">>,
    <<"P","r","e","h","e","a","t"," ","t","h","e"," ","o","v","e","n"," ","t","o"," ","4","0","0","°","F",","," ","b","a","k","e",","," ","t","h","e","n"," ","p","r","e","h","e","a","t"," ","t","h","e"," ","o","v","e","n"," ","t","o"," ","2","0","0","°","C",".">>,
    <<"B","a","k","e"," ","f","o","r"," ","2","5","-","3","0"," ","m","i","n","u","t","e","s",".">>, <<"H","e","a","t"," ","t","h","e"," ","o","v","e","n"," ","t","o"," ","3","5","0","°","F",".">> }

InitPreheat ==
    /\ pc = "start"
    /\ \E texts \in UNION {[1..n -> PreheatStepTexts] : n \in 0..MaxPreheatSteps} :
           steps = ProcessSteps(texts)
    /\ preheat_instructions = <<>>
    /\ sentence_steps = <<>>
    /\ content = <<>>
    /\ parsed = <<>>
    /\ TimerIdle
    /\ FormatIdle
    /\ MatchIdle
    /\ ProcessIdle
    /\ StoreIdle

DetectPreheatOven ==
    /\ pc = "start"
    /\ preheat_instructions' = detect_preheat_oven(steps)
    /\ pc' = "done"
    /\ UNCHANGED <<step_text, timers, seconds, display, ingredients, matched,
                   content, parsed, steps, sentence_steps,
                   recipe_data, step_heap, calls,
                   saved_recipes_file, file_truncated, now, handler>>

SpecPreheat == InitPreheat /\ [][DetectPreheatOven]_vars

\* The saved recipes.  Requests: a save with the title and serves of the
\* request body, a save whose body has no title, a delete by id.  The clock
\* runs up to MaxClock milliseconds.
MaxClock == 2

Titles == { <<"P","a","n","c","a","k","e","s">>, <<"W","a","f","f","l","e","s">> }

SaveData ==
    {[title |-> t, serves |-> n] : t \in Titles, n \in { <<"2">>, <<"4">> }} \cup {[serves |-> <<"4">>]}

Requests ==
    {[op |-> "save", data |-> data] : data \in SaveData}
        \cup {[op |-> "delete", recipe_id |-> ToString(t)] : t \in 0..MaxClock}

Handlers == {1, 2}

IdleHandler == [pc |-> "idle", request |-> [op |-> "none"], recipes |-> <<>>,
                response |-> [status |-> 0, success |-> FALSE]]

\* the list a handler writes for its request, recipes being the list loaded
ModifiedRecipes(recipes, request, timestamp) ==
    IF request.op = "save"
    THEN IF IsValidData(request.data) THEN SavedRecipes(recipes, request.data, timestamp)
         ELSE recipes
    ELSE DeletedRecipes(recipes, request.recipe_id)

ResponseTo(recipes, request, timestamp) ==
    IF request.op = "save" THEN SaveResponse(recipes, request.data, timestamp)
    ELSE DeleteResponse(recipes, request.recipe_id)

Tick ==
    /\ now < MaxClock
    /\ now' = now + 1
    /\ UNCHANGED <<pc, step_text, timers, seconds, display, ingredients, matched,
                   content, parsed, steps, sentence_steps, recipe_data, step_heap, calls,
                   preheat_instructions, saved_recipes_file, file_truncated, handler>>

\* Requests handled one after the other (the development server with one
\* thread): a request is handled from load_saved_recipes to the response
\* before the next one starts.
InitStore ==
    /\ pc = "start"
    /\ saved_recipes_file = <<>>
    /\ file_truncated = FALSE
    /\ now = 1
    /\ handler = [h \in Handlers |-> IdleHandler]
    /\ steps = <<>>
    /\ sentence_steps = <<>>
    /\ content = <<>>
    /\ parsed = <<>>
    /\ TimerIdle
    /\ FormatIdle
    /\ MatchIdle
    /\ ProcessIdle
    /\ PreheatIdle

HandleRequest(request) ==
    LET recipes == load_saved_recipes(saved_recipes_file, file_truncated)
        response == ResponseTo(recipes, request, now)
    IN  /\ saved_recipes_file' = IF response.success
                                 THEN ModifiedRecipes(recipes, request, now)
                                 ELSE saved_recipes_file
        /\ file_truncated' = FALSE
        /\ handler' = [handler EXCEPT ![1] =
                          [pc |-> "done", request |-> request,
                           recipes |-> ModifiedRecipes(recipes, request, now),
                           response |-> response]]
        /\ UNCHANGED <<pc, step_text, timers, seconds, display, ingredients, matched,
                       content, parsed, steps, sentence_steps, recipe_data, step_heap,
                       calls, preheat_instructions, now>>

SaveRecipeEndpoint == \E request \in Requests : request.op = "save" /\ HandleRequest(request)

DeleteSavedRecipe == \E request \in Requests : request.op = "delete" /\ HandleRequest(request)

NextStore == SaveRecipeEndpoint \/ DeleteSavedRecipe \/ Tick

SpecStore == InitStore /\ [][NextStore]_vars

\* Two requests handled at the same time (threaded server), one by each
\* handler, on a file that holds one recipe: each handler loads, modifies
\* its own list, opens the file for writing (which empties it) and dumps.
StoredRecipe == [id |-> "0", title |-> <<"C","r","e","p","e","s">>, serves |-> <<"2">>, saved_at |-> 0]

InitConcurrent ==
    /\ pc = "start"
    /\ saved_recipes_file = <<StoredRecipe>>
    /\ file_truncated = FALSE
    /\ now = 1
    /\ handler = [h \in Handlers |-> IdleHandler]
    /\ steps = <<>>
    /\ sentence_steps = <<>>
    /\ content = <<>>
    /\ parsed = <<>>
    /\ TimerIdle
    /\ FormatIdle
    /\ MatchIdle
    /\ ProcessIdle
    /\ PreheatIdle

StoreFrame ==
    UNCHANGED <<pc, step_text, timers, seconds, display, ingredients, matched,
                content, parsed, steps, sentence_steps, recipe_data, step_heap,
                calls, preheat_instructions, now>>

\* load_saved_recipes() and the change of the local list, up to the call of
\* save_recipes_to_file (or the 400 or 404 response)
LoadAndModify(h) ==
    /\ handler[h].pc = "idle"
    /\ \E request \in Requests :
           LET recipes == load_saved_recipes(saved_recipes_file, file_truncated)
               response == ResponseTo(recipes, request, now)
           IN  handler' = [handler EXCEPT ![h] =
                              [pc |-> IF response.success THEN "write" ELSE "done",
                               request |-> request,
                               recipes |-> ModifiedRecipes(recipes, request, now),
                               response |-> response]]
    /\ UNCHANGED <<saved_recipes_file, file_truncated>>
    /\ StoreFrame

\* save_recipes_to_file: open(SAVED_RECIPES_FILE, 'w')
OpenForWriting(h) ==
    /\ handler[h].pc = "write"
    /\ file_truncated' = TRUE
    /\ handler' = [handler EXCEPT ![h].pc = "dump"]
    /\ UNCHANGED saved_recipes_file
    /\ StoreFrame

\* save_recipes_to_file: json.dump(recipes, f), and the response
Dump(h) ==
    /\ handler[h].pc = "dump"
    /\ saved_recipes_file' = handler[h].recipes
    /\ file_truncated' = FALSE
    /\ handler' = [handler EXCEPT ![h].pc = "done"]
    /\ StoreFrame

NextConcurrent ==
    \/ \E h \in Handlers : LoadAndModify(h)
    \/ \E h \in Handlers : OpenForWriting(h)
    \/ \E h \in Handlers : Dump(h)
    \/ Tick

SpecConcurrent == InitConcurrent /\ [][NextConcurrent]_vars

----------------------------------------------------------------------------
(* Claims about timer_detector.py *)

\* "<n> <word>" with the plural "s" exactly when n is not 1
Magnitude(n, word) == ToString(n) \o " " \o word \o (IF n = 1 THEN "" ELSE "s")

\* the display the specification gives for s seconds
SpecDisplay(s) ==
    IF s >= 3600
    THEN Magnitude(s \div 3600, "hour")
         \o (IF (s % 3600) \div 60 > 0 THEN " " \o Magnitude((s % 3600) \div 60, "minute") ELSE "")
    ELSE IF s >= 60
    THEN Magnitude(s \div 60, "minute")
         \o (IF s % 60 > 0 THEN " " \o Magnitude(s % 60, "second") ELSE "")
    ELSE Magnitude(s, "second")

\* the durations the specification gives for a phrase
RangeDuration(p) == ((p.a10 + p.b10) * p.mult) \div 20

SecondDuration(p) == (p.b10 * p.mult) \div 10

SingularDuration(p) == (p.a10 * p.mult) \div 10

\* the two timers of a range phrase: the one of the range pattern and the
\* one of the singular pattern of the same unit on "<b> <unit>"
RangeTimer(p) ==
    [text |-> RangeText(p), duration_seconds |-> RangeDuration(p),
     display |-> SpecDisplay(RangeDuration(p))]

SecondTimer(p) ==
    [text |-> p.b \o p.ws \o p.unit, duration_seconds |-> SecondDuration(p),
     display |-> SpecDisplay(SecondDuration(p))]

SingularTimer(p) ==
    [text |-> SingularText(p), duration_seconds |-> SingularDuration(p),
     display |-> SpecDisplay(SingularDuration(p))]

FillersOrNone == Fillers \cup {<<>>}

\* step texts whose only duration phrase is the minute range p
OnlyMinuteRange(t, p) ==
    /\ p.family = 3
    /\ \E f1 \in FillersOrNone, f2 \in FillersOrNone : t = f1 \o RangeText(p) \o f2

\* C2 as stated: for a step text whose only duration phrase is one minute
\* range, detect_timers returns exactly one Timer, whose duration is the mean
\* of the two numbers times 60 and whose display names the whole minutes only
\* ("Bake for 25-30 minutes until golden brown.": 1650 s, "27 minutes").
C2_OneTimerMinutesOnly ==
    pc = "done" =>
        /\ \A p \in RangePhrases :
              OnlyMinuteRange(step_text, p) =>
                  /\ Len(timers) = 1
                  /\ timers[1].duration_seconds = RangeDuration(p)
                  /\ timers[1].display = Magnitude(RangeDuration(p) \div 60, "minute")
        /\ step_text = test_steps[2] =>
              /\ Len(timers) = 1
              /\ timers[1].duration_seconds = 1650
              /\ timers[1].display = "27 minutes"

\* C2 amended: for such a step text detect_timers returns exactly two
\* Timers: the range timer (the range phrase, the mean of the two numbers
\* times 60, displayed with its remainder seconds: 1650 s is
\* "27 minutes 30 seconds"), then the minute-singular timer on the second
\* number of the range ("30 minutes", 1800 s, "30 minutes").
C2_RangeThenSecondNumber ==
    pc = "done" =>
        /\ \A p \in RangePhrases :
              OnlyMinuteRange(step_text, p) => timers = <<RangeTimer(p), SecondTimer(p)>>
        /\ step_text = test_steps[2] =>
              timers = << [text |-> <<"2","5","-","3","0"," ","m","i","n","u","t","e","s">>, duration_seconds |-> 1650,
                           display |-> "27 minutes 30 seconds"],
                          [text |-> <<"3","0"," ","m","i","n","u","t","e","s">>, duration_seconds |-> 1800,
                           display |-> "30 minutes"] >>

C2_Witness ==
    /\ pc = "done"
    /\ step_text = test_steps[2]
    /\ Len(timers) = 2
    /\ timers[1].display = "27 minutes 30 seconds"

\* the pattern family (1..6, the index in patterns) a timer text belongs to:
\* its unit is told by the first of the letters h, m, s in it, and a range
\* by a "-" or a "to"
UnitLetter(t) ==
    LET l == Lower(t)
        k == CHOOSE k \in DOMAIN l : l[k] \in {"h", "m", "s"}
                                      /\ \A j \in 1..(k - 1) : l[j] \notin {"h", "m", "s"}
    IN  l[k]

TimerFamily(t) ==
    (CASE UnitLetter(t) = "h" -> 2 [] UnitLetter(t) = "m" -> 4 [] UnitLetter(t) = "s" -> 6)
        - (IF Occurs(<<"-">>, t) \/ Occurs(<<"t","o">>, Lower(t)) THEN 1 ELSE 0)

\* step texts made of one singular hour phrase h and one singular minute
\* phrase m joined by " and ", in either order
HourAndMinute(t, h, m) ==
    /\ h.family = 2 /\ m.family = 4
    /\ \E f1 \in FillersOrNone, f2 \in FillersOrNone :
          \/ t = f1 \o SingularText(h) \o <<" ","a","n","d"," ">> \o SingularText(m) \o f2
          \/ t = f1 \o SingularText(m) \o <<" ","a","n","d"," ">> \o SingularText(h) \o f2

\* C3: for a step text with one singular hour phrase and one singular minute
\* phrase joined by a conjunction, detect_timers returns exactly two Timers,
\* the hour timer then the minute timer, never merged ("Cook for 1 hour and
\* 30 minutes.": "1 hour"/3600/"1 hour", then "30 minutes"/1800/"30
\* minutes"); and in every result the timers of an earlier pattern family
\* precede those of a later one, wherever they stand in the text.
C3_HourThenMinute ==
    pc = "done" =>
        /\ \A h \in SingularPhrases, m \in SingularPhrases :
              HourAndMinute(step_text, h, m) => timers = <<SingularTimer(h), SingularTimer(m)>>
        /\ step_text = test_steps[4] =>
              timers = << [text |-> <<"1"," ","h","o","u","r">>, duration_seconds |-> 3600, display |-> "1 hour"],
                          [text |-> <<"3","0"," ","m","i","n","u","t","e","s">>, duration_seconds |-> 1800,
                           display |-> "30 minutes"] >>
        /\ \A i \in DOMAIN timers, j \in DOMAIN timers :
              i < j => TimerFamily(timers[i].text) <= TimerFamily(timers[j].text)

\* the minute phrase comes first in the text and second in the result
C3_Witness ==
    /\ pc = "done"
    /\ step_text = <<"3","0"," ","m","i","n","u","t","e","s"," ","a","n","d"," ","1"," ","h","o","u","r">>
    /\ Len(timers) = 2
    /\ timers[1].text = <<"1"," ","h","o","u","r">>
    /\ timers[2].text = <<"3","0"," ","m","i","n","u","t","e","s">>

\* C4: format_duration(s) is "H hour[s]" with " M minute[s]" only when the
\* remainder minutes are positive for s >= 3600, "M minute[s]" with
\* " S second[s]" only when the remainder seconds are positive for
\* 60 <= s < 3600, and "S second[s]" below 60, the "s" present exactly when
\* the magnitude is not 1; format_duration(90) = "1 minute 30 seconds",
\* format_duration(3600) = "1 hour", format_duration(45) = "45 seconds".
C4_FormatDuration ==
    pc = "done" =>
        /\ display = SpecDisplay(seconds)
        /\ seconds = 90 => display = "1 minute 30 seconds"
        /\ seconds = 3600 => display = "1 hour"
        /\ seconds = 45 => display = "45 seconds"

C4_Witness == pc = "done" /\ seconds = 3661 /\ display = "1 hour 1 minute"

\* the number a of a range phrase that stands at position i starts there
StartsNumber(t, i) ==
    /\ i = 1 \/ ~IsDigit(t[i - 1])
    /\ ~(i > 2 /\ t[i - 1] = "." /\ IsDigit(t[i - 2]))

\* C10: no deduplication across pattern families: for every range phrase
\* "<a>-<b> <unit>" or "<a> to <b> <unit>" in the step text the result holds
\* the range timer (the whole phrase, the mean of a and b times the
\* multiplier, truncated) and after it a timer of the singular pattern of the
\* same unit whose text is "<b> <unit>" and whose duration is b times the
\* multiplier (truncated to whole seconds).
C10_NoDeduplication ==
    pc = "done" =>
        \A p \in RangePhrases :
            \A i \in 1..Len(step_text) :
                (LitAt(step_text, i, RangeText(p), FALSE) /\ StartsNumber(step_text, i)) =>
                    \E k \in DOMAIN timers, l \in DOMAIN timers :
                        /\ k < l
                        /\ timers[k] = RangeTimer(p)
                        /\ timers[l] = SecondTimer(p)

C10_Witness ==
    /\ pc = "done"
    /\ step_text = <<"C","o","o","k"," ","f","o","r"," ","5"," ","t","o"," ","1","0"," ","m","i","n","s">>
    /\ timers = << [text |-> <<"5"," ","t","o"," ","1","0"," ","m","i","n","s">>, duration_seconds |-> 450,
                    display |-> "7 minutes 30 seconds"],
                   [text |-> <<"1","0"," ","m","i","n","s">>, duration_seconds |-> 600, display |-> "10 minutes"] >>

----------------------------------------------------------------------------
(* Claims about ingredient_matcher.py *)

\* whether the non-empty word w occurs in t as a whole word, ignoring case
OccursAsWord(w, t) == w # <<>> /\ \E i \in 1..Len(t) : WordAt(t, i, w, TRUE)

\* the predicate of the claim on one ingredient entry
Referenced(ingredient, t) ==
    /\ extract_ingredient_name(ingredient) # <<>>
    /\ \E v \in get_ingredient_variations(extract_ingredient_name(ingredient)) : OccursAsWord(v, t)

\* C5: match_ingredients_to_step returns the input list filtered by one
\* predicate, in input order and with the original strings: the entry at
\* each position is kept (once) exactly when its core name is non-empty and
\* one of its variations occurs as a case-insensitive whole word in the step
\* text; on the worked example (the 8 pancake ingredients) the result is the
\* 5 entries for salt, baking powder, baking soda, flour and sugar.
C5_FilterInInputOrder ==
    pc = "done" =>
        /\ LET Keep(ingredient) == Referenced(ingredient, step_text)
           IN  matched = SelectSeq(ingredients, Keep)
        /\ (ingredients = test_ingredients
              /\ step_text \in {test_step,
                     <<"w","h","i","s","k"," ","t","o","g","e","t","h","e","r"," ","t","h","e"," ","s","a","l","t",","," ","b","a","k","i","n","g"," ","p","o","w","d","e","r",","," ","b","a","k","i","n","g"," ","s","o","d","a",","," ","f","l","o","u","r"," ","a","n","d"," ","s","u","g","a","r">>}) =>
              matched = << <<"1"," ","t","e","a","s","p","o","o","n"," ","s","a","l","t">>, <<"2"," ","t","e","a","s","p","o","o","n","s"," ","b","a","k","i","n","g"," ","p","o","w","d","e","r">>,
                           <<"1"," ","t","e","a","s","p","o","o","n"," ","b","a","k","i","n","g"," ","s","o","d","a">>, <<"2"," ","c","u","p","s"," ","o","f"," ","s","i","f","t","e","d"," ","f","l","o","u","r">>,
                           <<"2"," ","t","a","b","l","e","s","p","o","o","n","s"," ","s","u","g","a","r">> >>

C5_Witness ==
    /\ pc = "done"
    /\ ingredients = test_ingredients
    /\ step_text = test_step
    /\ Len(matched) = 5

----------------------------------------------------------------------------
(* Claims about recipe_parser.py *)

ContentLines == SplitLines(content, 1)

\* an "Ingredients:" header line followed later by an "Instructions:" line
WellFormedPair ==
    \E i \in DOMAIN ContentLines, j \in DOMAIN ContentLines :
        /\ i < j
        /\ IsHeader(ContentLines[i], <<"i","n","g","r","e","d","i","e","n","t","s",":">>)
        /\ IsHeader(ContentLines[j], <<"i","n","s","t","r","u","c","t","i","o","n","s",":">>)

\* a numbered step line ("<digits>. <text>") stands after the first
\* "Instructions:" line
NumberedLineAfterHeader ==
    \E i \in DOMAIN ContentLines, j \in DOMAIN ContentLines :
        /\ i < j
        /\ IsHeader(ContentLines[i], <<"i","n","s","t","r","u","c","t","i","o","n","s",":">>)
        /\ NumberedStep(strip(ContentLines[j])).matched

RECURSIVE TrimmedServes(_, _)
TrimmedServes(lines, k) ==
    IF k > Len(lines) THEN <<>>
    ELSE IF startswith(Lower(strip(lines[k])), <<"s","e","r","v","e","s",":">>)
         THEN strip(SplitOnce(lines[k], ":")[2])
    ELSE TrimmedServes(lines, k + 1)

\* C7: parse_recipe_text sets serves to the trimmed text after the first
\* colon of the first line whose trimmed, lower-cased text starts with
\* "serves:" (a line with white space before "Serves:" is recognised like
\* any other), and to the empty string when no line qualifies.
C7_ServesFromTrimmedLine ==
    pc = "done" => parsed.serves = TrimmedServes(ContentLines, 1)

\* a sentence-ending mark followed by white space
HasSentenceBoundary(text) ==
    \E i \in 1..(Len(text) - 1) : text[i] \in {".", "!", "?"} /\ IsSpace(text[i + 1])

\* C8: break_into_sentences applied to one step whose text has no
\* sentence-ending mark followed by white space returns exactly one step
\* with that text unchanged, and applied to its own result it returns the
\* same list: same texts, same order, numbers 1..k.
C8_SplitterIdempotent ==
    [][ /\ (pc = "start" /\ Len(steps) = 1 /\ ~HasSentenceBoundary(steps[1].text)) =>
              (Len(sentence_steps') = 1 /\ sentence_steps'[1].text = steps[1].text)
        /\ pc = "once" =>
              /\ sentence_steps' = sentence_steps
              /\ \A k \in DOMAIN sentence_steps' : sentence_steps'[k].number = k ]_vars

\* two steps, the second of two sentences, split into three and split again
C8_Witness ==
    /\ pc = "twice"
    /\ steps = <<NewStep(2, <<"a">>), NewStep(4, <<"."," ","a">>)>>
    /\ sentence_steps = <<NewStep(1, <<"a">>), NewStep(2, <<".">>), NewStep(3, <<"a">>)>>

----------------------------------------------------------------------------
(* Claims about process_recipe_steps of app.py *)

StepFlags == {"is_ingredients_list", "is_notes_page", "is_final_page"}

\* the places of step_list whose step carries flag
Flagged(step_list, flag) == {i \in DOMAIN step_list : HasFlag(step_list[i], flag)}

\* the steps of the recipe, as the caller reads them
StepsOf(recipe, heap) == Deref(heap, recipe.steps)

\* the number of steps the call puts before the steps it is given
StepsBefore(recipe) == IF Truthy(recipe.notes) THEN 2 ELSE 1

\* C1: a call of process_recipe_steps on a recipe with N steps leaves the
\* recipe with an ingredients-list step numbered 0 first, then a notes step
\* exactly when the notes are not empty, then the N steps it was given, in
\* their order and with their texts, then a final step in last place: N+3
\* steps with notes and N+2 without, the step in place i numbered i (from
\* 0), no step with more than one of the three flags; on a recipe that was
\* not processed before, one ingredients-list step, one final step, and one
\* notes step or none.
C1_ProcessedShape ==
    [][calls' = calls + 1 =>
        LET N == Len(recipe_data.steps)
            before == StepsBefore(recipe_data)
            out == StepsOf(recipe_data', step_heap')
        IN  /\ Len(out) = N + before + 1
            /\ Len(out) = IF Truthy(recipe_data.notes) THEN N + 3 ELSE N + 2
            /\ HasFlag(out[1], "is_ingredients_list") /\ out[1].number = 0
            /\ Truthy(recipe_data.notes) =>
                   HasFlag(out[2], "is_notes_page") /\ out[2].text = recipe_data.notes
            /\ \A k \in 1..N :
                   /\ recipe_data'.steps[before + k] = recipe_data.steps[k]
                   /\ out[before + k].text = StepsOf(recipe_data, step_heap)[k].text
            /\ HasFlag(out[Len(out)], "is_final_page")
            /\ \A i \in DOMAIN out : out[i].number = i - 1
            /\ \A i \in DOMAIN out : Cardinality({flag \in StepFlags : HasFlag(out[i], flag)}) <= 1
            /\ calls = 0 =>
                   /\ Flagged(out, "is_ingredients_list") = {1}
                   /\ Flagged(out, "is_final_page") = {Len(out)}
                   /\ Flagged(out, "is_notes_page") = IF Truthy(recipe_data.notes) THEN {2} ELSE {}
    ]_vars

C1_Witness ==
    /\ calls = 1
    /\ Truthy(recipe_data.notes)
    /\ Len(recipe_data.steps) = MaxSteps + 3
    /\ HasFlag(step_heap[recipe_data.steps[2]], "is_notes_page")

----------------------------------------------------------------------------
(* Claims about detect_preheat_oven of app.py *)

\* the display string of the claim for an occurrence with the unit captured
\* (None when no unit is captured): C when the unit starts with "c"
PreheatDisplay(temp, unit) ==
    <<"P","r","e","h","e","a","t"," ","o","v","e","n"," ","t","o"," ">> \o temp
        \o (IF unit # None /\ Lower(unit)[1] = "c" THEN <<"°","C">> ELSE <<"°","F">>)

\* one entry per occurrence of the phrase in text, from position i on
RECURSIVE PreheatOccurrences(_, _)
PreheatOccurrences(text, i) ==
    IF i > Len(text) THEN <<>>
    ELSE (IF PreheatAt(text, i).matched
          THEN <<PreheatDisplay(PreheatAt(text, i).group1, PreheatAt(text, i).group2)>>
          ELSE <<>>) \o PreheatOccurrences(text, i + 1)

\* C11: detect_preheat_oven returns one entry "Preheat oven to N<unit>" per
\* occurrence of a preheat-oven phrase in the step texts, two occurrences in
\* the text of one step included, in order of occurrence; the unit is C when
\* the captured unit starts with "c" and F otherwise, also when no unit is
\* captured.
C11_OneEntryPerOccurrence ==
    pc = "done" =>
        preheat_instructions = Flatten([k \in DOMAIN steps |-> PreheatOccurrences(steps[k].text, 1)])

----------------------------------------------------------------------------
(* Claims about the annotations of process_recipe_steps *)

----------------------------------------------------------------------------
(* Claims about the sections of parse_recipe_text *)

HeaderLines(header) == {k \in DOMAIN ContentLines : IsHeader(ContentLines[k], header)}

\* the least element of the non-empty set of numbers S
Least(S) == CHOOSE k \in S : \A j \in S : k <= j

NonBlank(k) == strip(ContentLines[k]) # <<>>

\* the lines the ingredient scan appends: not blank, after an
\* "Ingredients:" line and before the first "Instructions:" line
IngredientSourceLines ==
    {k \in DOMAIN ContentLines :
        /\ NonBlank(k)
        /\ k \notin HeaderLines(<<"i","n","g","r","e","d","i","e","n","t","s",":">>)
        /\ \E i \in HeaderLines(<<"i","n","g","r","e","d","i","e","n","t","s",":">>) : i < k
        /\ \A j \in HeaderLines(<<"i","n","s","t","r","u","c","t","i","o","n","s",":">>) : k < j}

\* the lines the notes scan appends: not blank, after the first "Notes:"
\* line and before the first header line that follows it
NotesSourceLines ==
    {k \in DOMAIN ContentLines :
        /\ NonBlank(k)
        /\ k \notin HeaderLines(<<"n","o","t","e","s",":">>)
        /\ HeaderLines(<<"n","o","t","e","s",":">>) # {}
        /\ Least(HeaderLines(<<"n","o","t","e","s",":">>)) < k
        /\ \A j \in HeaderLines(<<"i","n","s","t","r","u","c","t","i","o","n","s",":">>) \cup HeaderLines(<<"i","n","g","r","e","d","i","e","n","t","s",":">>) :
               j < Least(HeaderLines(<<"n","o","t","e","s",":">>)) \/ k < j}

\* the lines the instruction scan puts into a step text: after the first
\* "Instructions:" line, a numbered line or a line that is not blank and
\* follows a numbered line
StepSourceLines ==
    {k \in DOMAIN ContentLines :
        /\ NonBlank(k)
        /\ k \notin HeaderLines(<<"i","n","s","t","r","u","c","t","i","o","n","s",":">>)
        /\ \E i \in HeaderLines(<<"i","n","s","t","r","u","c","t","i","o","n","s",":">>) :
               /\ i < k
               /\ \E j \in (i + 1)..k : NumberedStep(strip(ContentLines[j])).matched}

\* C13: the sections parse_recipe_text extracts are disjoint: no line of
\* the text goes into more than one of the ingredient list, the notes and
\* the step texts; no "Notes:" header is an ingredient entry or part of a
\* step text.
C13_SectionsDisjoint ==
    (pc = "done" /\ ~parsed.raised) =>
        /\ IngredientSourceLines \cap NotesSourceLines = {}
        /\ NotesSourceLines \cap StepSourceLines = {}
        /\ IngredientSourceLines \cap StepSourceLines = {}
        /\ \A k \in DOMAIN parsed.ingredients : Lower(parsed.ingredients[k]) # <<"n","o","t","e","s",":">>
        /\ \A k \in DOMAIN parsed.steps : ~Occurs(<<"N","o","t","e","s",":">>, parsed.steps[k].text)

----------------------------------------------------------------------------
(* Claims about the saved recipes of app.py *)

UniqueIds(recipes) ==
    \A i, j \in DOMAIN recipes : recipes[i].id = recipes[j].id => i = j

UniqueTitles(recipes) ==
    \A i, j \in DOMAIN recipes : recipes[i].title = recipes[j].title => i = j

HasTitle(recipes, title) == \E i \in DOMAIN recipes : recipes[i].title = title

HasId(recipes, id) == \E i \in DOMAIN recipes : recipes[i].id = id

\* C14: after any sequence of save and delete requests no two stored
\* recipes share an id and no two share a title; a save of a title that
\* exists replaces that entry in place and keeps its id, a save of a new
\* title inserts one entry whose id no other entry has (also when two new
\* titles are saved within the same millisecond), and a successful delete
\* removes exactly one recipe.
C14_UniqueIdsAndTitles ==
    [][LET old == saved_recipes_file
           new == saved_recipes_file'
           request == handler'[1].request
           response == handler'[1].response
       IN  /\ UniqueIds(new)
           /\ UniqueTitles(new)
           /\ (handler' # handler /\ request.op = "save" /\ response.success) =>
                  IF HasTitle(old, request.data.title)
                  THEN /\ Len(new) = Len(old)
                       /\ \A i \in DOMAIN old :
                              IF old[i].title = request.data.title
                              THEN new[i].title = request.data.title /\ new[i].id = old[i].id
                              ELSE new[i] = old[i]
                  ELSE /\ Len(new) = Len(old) + 1
                       /\ new[1].title = request.data.title
                       /\ Tail(new) = old
                       /\ ~HasId(old, new[1].id)
           /\ (handler' # handler /\ request.op = "delete" /\ response.success) =>
                  Len(new) = Len(old) - 1
    ]_vars

\* a successful save of a recipe with a title
SavedBy(h) ==
    /\ handler[h].request.op = "save"
    /\ handler[h].response.success

\* C15: when two requests handled at the same time have both completed, the
\* file reflects both: after two saves of different titles it holds both
\* titles, and after a save and a delete of another recipe it holds the
\* saved title and no recipe with the deleted id.
C15_NoLostUpdate ==
    (\A h \in Handlers : handler[h].pc = "done") =>
        \A h, g \in Handlers :
            /\ (/\ SavedBy(h) /\ SavedBy(g)
                /\ handler[h].request.data.title # handler[g].request.data.title) =>
                   /\ HasTitle(saved_recipes_file, handler[h].request.data.title)
                   /\ HasTitle(saved_recipes_file, handler[g].request.data.title)
            /\ (/\ SavedBy(h)
                /\ handler[g].request.op = "delete" /\ handler[g].response.success
                /\ handler[g].request.recipe_id # handler[h].response.id) =>
                   /\ HasTitle(saved_recipes_file, handler[h].request.data.title)
                   /\ ~HasId(saved_recipes_file, handler[g].request.recipe_id)

====
